---- MODULE Spec2Model ----
(***************************************************************************)
(* Loyalty service of src/src/app.ts: an in-memory customer list, the      *)
(* points calculator calcPointsWithStatus, the promotion evaluator         *)
(* applyStatusUpgrade and the three express routes that use them.          *)
(*                                                                         *)
(* Numbers.  A JavaScript number is a record [k, v]: k = "fin" with v the  *)
(* value counted in units of 1/Scale (so halves for Scale = 2), k = "nan", *)
(* or k = "inf" with v the sign.  Points are whole numbers and are kept as *)
(* plain integers.  The multipliers 1.0, 1.2 and 2.0 are kept in tenths;   *)
(* Math.floor(base * 1.2) equals floor(base * 12 / 10) for every base the  *)
(* model reaches: the double nearest 1.2 is below 1.2 by less than         *)
(* 2^-54 relative, so the product rounds to the exact integer whenever     *)
(* base is a multiple of 5 and stays at least 0.2 away from an integer     *)
(* otherwise.                                                              *)
(*                                                                         *)
(* Strings (route parameters, string bodies) are sequences of one          *)
(* character strings, so that parseInt and Number are computed.            *)
(***************************************************************************)
EXTENDS Integers, Sequences, FiniteSets, TLC

VARIABLES
    customers,   \* the customers array (app.ts:19), a sequence of Customer records
    resp,        \* the response sent by the latest request
    purchases,   \* number of purchases recorded so far
    c,           \* direct calls: the Customer object handed to applyStatusUpgrade
    before,      \* direct calls: that object as it was before the latest call
    calls,       \* direct calls: number of applyStatusUpgrade calls made on c
    thrown,      \* direct calls: what the latest applyStatusUpgrade call threw
    status,      \* direct calls: the tier handed to calcPointsWithStatus
    amount,      \* direct calls: the amount handed to calcPointsWithStatus
    points,      \* direct calls: what calcPointsWithStatus returned last
    calcCalls    \* direct calls: number of calcPointsWithStatus calls made

vars == <<customers, resp, purchases, c, before, calls, thrown, status, amount, points,
          calcCalls>>
sysVars == <<customers, resp, purchases>>
upgVars == <<c, before, calls, thrown>>
calcVars == <<status, amount, points, calcCalls>>

----------------------------------------------------------------------------
(* Bounds *)

\* amounts are counted in units of 1/Scale
Scale == 2
\* clock readings are 1..MaxTime
MaxTime == 1
\* at most MaxPurchases purchases are recorded
MaxPurchases == 2
\* direct calls of applyStatusUpgrade take points in 0..MaxCallPoints
MaxCallPoints == 1010
\* direct calls of calcPointsWithStatus take amounts up to MaxCallAmount
MaxCallAmount == 110
\* each function is called directly at most MaxCalls times
MaxCalls == 2
\* clock readings of the direct calls are 1..MaxCallTime
MaxCallTime == 2

----------------------------------------------------------------------------
(* Values *)

Tiers == {"BRONZE", "SILVER", "GOLD", "PLATINUM"}

Undefined == "undefined"

Times == 1..MaxTime

CallTimes == 1..MaxCallTime

\* new Date().toISOString() at clock reading t
ToISOString(t) == "T" \o ToString(t)

Fin(v) == [k |-> "fin", v |-> v]
NaN == [k |-> "nan", v |-> 0]
Infinity == [k |-> "inf", v |-> 1]

Digits == {"0", "1", "2", "3", "4", "5", "6", "7", "8", "9"}

DigitValue(d) ==
    CASE d = "0" -> 0 [] d = "1" -> 1 [] d = "2" -> 2 [] d = "3" -> 3
      [] d = "4" -> 4 [] d = "5" -> 5 [] d = "6" -> 6 [] d = "7" -> 7
      [] d = "8" -> 8 [] d = "9" -> 9

\* length of the longest prefix of s made of digits
RECURSIVE DigitPrefixLen(_)
DigitPrefixLen(s) ==
    IF s = <<>> \/ Head(s) \notin Digits THEN 0 ELSE 1 + DigitPrefixLen(Tail(s))

\* value of a sequence of digits
RECURSIVE DigitsValue(_)
DigitsValue(s) ==
    IF s = <<>> THEN 0
    ELSE DigitsValue(SubSeq(s, 1, Len(s) - 1)) * 10 + DigitValue(s[Len(s)])

\* parseInt(s): optional sign, then the leading digits; NaN when there are none.
\* The result is a whole number, counted in units of 1.
ParseInt(s) ==
    LET neg == s # <<>> /\ Head(s) = "-"
        rest == IF s # <<>> /\ Head(s) \in {"-", "+"} THEN Tail(s) ELSE s
        n == DigitPrefixLen(rest)
    IN  IF n = 0 THEN NaN
        ELSE Fin((IF neg THEN -1 ELSE 1) * DigitsValue(SubSeq(rest, 1, n)))

StrInfinity == <<"I", "n", "f", "i", "n", "i", "t", "y">>

\* Number(s) for a string: "" is 0, a signed run of digits is its value,
\* "Infinity" is infinite, anything else is NaN.  Counted in units of 1/Scale.
StringToNumber(s) ==
    LET neg == s # <<>> /\ Head(s) = "-"
        rest == IF s # <<>> /\ Head(s) \in {"-", "+"} THEN Tail(s) ELSE s
    IN  IF s = <<>> THEN Fin(0)
        ELSE IF rest = StrInfinity THEN [k |-> "inf", v |-> IF neg THEN -1 ELSE 1]
        ELSE IF rest # <<>> /\ DigitPrefixLen(rest) = Len(rest)
             THEN Fin((IF neg THEN -1 ELSE 1) * DigitsValue(rest) * Scale)
        ELSE NaN

\* Number(x) for a JSON value x of a request body
ToNumber(x) ==
    CASE x.t = "undefined" -> NaN
      [] x.t = "null" -> Fin(0)
      [] x.t = "boolean" -> Fin(IF x.v THEN Scale ELSE 0)
      [] x.t = "number" -> x.v
      [] x.t = "string" -> StringToNumber(x.v)
      [] x.t = "object" -> NaN

IsFinite(n) == n.k = "fin"

----------------------------------------------------------------------------
(* The program *)

BASE_POINT_DIVISOR == 10

\* multipliers in tenths: 1.0, 1.0, 1.2, 2.0
STATUS_MULTIPLIER ==
    [BRONZE |-> 10, SILVER |-> 10, GOLD |-> 12, PLATINUM |-> 20]

\* STATUS_MULTIPLIER[status] ?? 1.0, in tenths
Multiplier(st) ==
    IF st \in DOMAIN STATUS_MULTIPLIER THEN STATUS_MULTIPLIER[st] ELSE 10

\* variant: one floor, taken after multiplying
calcPointsSingleFloor(st, a) ==
    (a * Multiplier(st)) \div (BASE_POINT_DIVISOR * Scale * 10)

\* variant: the remainder of the division in place of its quotient
calcPointsRemainder(st, a) ==
    LET base == (a \div Scale) % BASE_POINT_DIVISOR
        mult == Multiplier(st)
    IN  (base * mult) \div 10

\* calcPointsWithStatus(status, amount) for a finite positive amount a,
\* counted in units of 1/Scale
calcPointsWithStatus(st, a) ==
    LET base == a \div (BASE_POINT_DIVISOR * Scale)
        mult == Multiplier(st)
    IN  (base * mult) \div 10

\* variant: the thresholds are exclusive
applyStatusUpgradeStrict(cu, t) ==
    IF cu.points > 1000 /\ cu.status # "PLATINUM"
    THEN [cu EXCEPT !.status = "PLATINUM", !.lastStatusChange = ToISOString(t)]
    ELSE IF cu.points > 750 /\ (cu.status = "SILVER" \/ cu.status = "BRONZE")
    THEN [cu EXCEPT !.status = "GOLD", !.lastStatusChange = ToISOString(t)]
    ELSE IF cu.points > 500 /\ cu.status = "BRONZE"
    THEN [cu EXCEPT !.status = "SILVER", !.lastStatusChange = ToISOString(t)]
    ELSE cu

\* variant: the GOLD rule does not look at the current tier
applyStatusUpgradeNoTierGuard(cu, t) ==
    IF cu.points >= 1000 /\ cu.status # "PLATINUM"
    THEN [cu EXCEPT !.status = "PLATINUM", !.lastStatusChange = ToISOString(t)]
    ELSE IF cu.points >= 750
    THEN [cu EXCEPT !.status = "GOLD", !.lastStatusChange = ToISOString(t)]
    ELSE IF cu.points >= 500 /\ cu.status = "BRONZE"
    THEN [cu EXCEPT !.status = "SILVER", !.lastStatusChange = ToISOString(t)]
    ELSE cu

\* variant: the rules are tried lowest threshold first, one tier per call
applyStatusUpgradeLowestFirst(cu, t) ==
    IF cu.points >= 500 /\ cu.status = "BRONZE"
    THEN [cu EXCEPT !.status = "SILVER", !.lastStatusChange = ToISOString(t)]
    ELSE IF cu.points >= 750 /\ cu.status = "SILVER"
    THEN [cu EXCEPT !.status = "GOLD", !.lastStatusChange = ToISOString(t)]
    ELSE IF cu.points >= 1000 /\ cu.status = "GOLD"
    THEN [cu EXCEPT !.status = "PLATINUM", !.lastStatusChange = ToISOString(t)]
    ELSE cu

\* variant: PLATINUM is given to GOLD customers only
applyStatusUpgradeFromGoldOnly(cu, t) ==
    IF cu.points >= 1000 /\ cu.status = "GOLD"
    THEN [cu EXCEPT !.status = "PLATINUM", !.lastStatusChange = ToISOString(t)]
    ELSE IF cu.points >= 750 /\ (cu.status = "SILVER" \/ cu.status = "BRONZE")
    THEN [cu EXCEPT !.status = "GOLD", !.lastStatusChange = ToISOString(t)]
    ELSE IF cu.points >= 500 /\ cu.status = "BRONZE"
    THEN [cu EXCEPT !.status = "SILVER", !.lastStatusChange = ToISOString(t)]
    ELSE cu

\* variant: the SILVER rule also fires for a customer who is SILVER already
applyStatusUpgradeSilverAgain(cu, t) ==
    IF cu.points >= 1000 /\ cu.status # "PLATINUM"
    THEN [cu EXCEPT !.status = "PLATINUM", !.lastStatusChange = ToISOString(t)]
    ELSE IF cu.points >= 750 /\ (cu.status = "SILVER" \/ cu.status = "BRONZE")
    THEN [cu EXCEPT !.status = "GOLD", !.lastStatusChange = ToISOString(t)]
    ELSE IF cu.points >= 500 /\ (cu.status = "BRONZE" \/ cu.status = "SILVER")
    THEN [cu EXCEPT !.status = "SILVER", !.lastStatusChange = ToISOString(t)]
    ELSE cu

\* variant: the GOLD rule changes the tier without stamping the change
applyStatusUpgradeGoldUnstamped(cu, t) ==
    IF cu.points >= 1000 /\ cu.status # "PLATINUM"
    THEN [cu EXCEPT !.status = "PLATINUM", !.lastStatusChange = ToISOString(t)]
    ELSE IF cu.points >= 750 /\ (cu.status = "SILVER" \/ cu.status = "BRONZE")
    THEN [cu EXCEPT !.status = "GOLD"]
    ELSE IF cu.points >= 500 /\ cu.status = "BRONZE"
    THEN [cu EXCEPT !.status = "SILVER", !.lastStatusChange = ToISOString(t)]
    ELSE cu

\* applyStatusUpgrade(c), the clock reading t at the call
applyStatusUpgrade(cu, t) ==
    IF cu.points >= 1000 /\ cu.status # "PLATINUM"
    THEN [cu EXCEPT !.status = "PLATINUM", !.lastStatusChange = ToISOString(t)]
    ELSE IF cu.points >= 750 /\ (cu.status = "SILVER" \/ cu.status = "BRONZE")
    THEN [cu EXCEPT !.status = "GOLD", !.lastStatusChange = ToISOString(t)]
    ELSE IF cu.points >= 500 /\ cu.status = "BRONZE"
    THEN [cu EXCEPT !.status = "SILVER", !.lastStatusChange = ToISOString(t)]
    ELSE cu

InitialCustomers ==
    << [id |-> 1, name |-> "John Smith", status |-> "SILVER", points |-> 450,
        lastPurchaseDate |-> "2024-02-15", email |-> Undefined,
        preferredStore |-> "Downtown", joinDate |-> "2023-06-15",
        notifications |-> TRUE, lastStatusChange |-> Undefined],
       [id |-> 2, name |-> "Jane Doe", status |-> "GOLD", points |-> 850,
        lastPurchaseDate |-> "2024-03-01", email |-> "jane.doe@email.com",
        preferredStore |-> Undefined, joinDate |-> "2023-01-20",
        notifications |-> FALSE, lastStatusChange |-> Undefined] >>

\* variant: the first customer stands in for one that is not found
FindOrFirst(customerId) ==
    LET hits == {i \in DOMAIN customers :
                    customerId.k = "fin" /\ customers[i].id = customerId.v}
    IN  IF hits = {} THEN 1 ELSE CHOOSE i \in hits : \A j \in hits : i <= j

\* customers.find((c) => c.id === customerId): the index of the first match, 0 for none
Find(customerId) ==
    LET hits == {i \in DOMAIN customers :
                    customerId.k = "fin" /\ customers[i].id = customerId.v}
    IN  IF hits = {} THEN 0 ELSE CHOOSE i \in hits : \A j \in hits : i <= j

\* a response: the status code and, for a recorded purchase, the two numbers
\* of the body next to the customer (the customer of a body is the record
\* itself, as stored)
NoResponse == [code |-> 0, awardedPoints |-> 0, appliedStatusMultiplier |-> 0]

Response(code) == [code |-> code, awardedPoints |-> 0, appliedStatusMultiplier |-> 0]

\* the route parameter :id of a request
IdParams == { <<"1">>, <<"2", "x">>, <<"3">>, <<"x">> }

\* req.body?.amount of a purchase request: absent, null, true, the numbers
\* 0, -300, 1/Scale, 300, 500, 3000, 6000 and Infinity (the JSON number 1e999),
\* and the strings "abc" and "500"
AmountBodies ==
    { [t |-> "undefined"], [t |-> "null"], [t |-> "boolean", v |-> TRUE],
      [t |-> "number", v |-> Fin(0)], [t |-> "number", v |-> Fin(-300 * Scale)],
      [t |-> "number", v |-> Fin(1)], [t |-> "number", v |-> Fin(300 * Scale)],
      [t |-> "number", v |-> Fin(500 * Scale)],
      [t |-> "number", v |-> Fin(3000 * Scale)],
      [t |-> "number", v |-> Fin(6000 * Scale)],
      [t |-> "number", v |-> Infinity],
      [t |-> "string", v |-> <<"a", "b", "c">>],
      [t |-> "string", v |-> <<"5", "0", "0">>] }

\* variant: zero passes the amount check
InvalidAmountNegativeOnly(amt) == ~IsFinite(amt) \/ amt.v < 0

\* !Number.isFinite(amount) || amount <= 0
InvalidAmount(amt) == ~IsFinite(amt) \/ amt.v <= 0

\* variant: the award replaces the total in place of being added to it
RecordPurchaseAssign(customer, a, t1, t2) ==
    LET awardedPoints == calcPointsWithStatus(customer.status, a)
        accrued == [customer EXCEPT
                       !.points = awardedPoints,
                       !.lastPurchaseDate = ToISOString(t1)]
        upgraded == applyStatusUpgrade(accrued, t2)
    IN  [customer |-> upgraded, awardedPoints |-> awardedPoints,
         appliedStatusMultiplier |-> STATUS_MULTIPLIER[upgraded.status]]

\* variant: the upgrade is evaluated before the award is added
RecordPurchaseUpgradeFirst(customer, a, t1, t2) ==
    LET awardedPoints == calcPointsWithStatus(customer.status, a)
        upgraded == applyStatusUpgrade(customer, t2)
        accrued == [upgraded EXCEPT
                       !.points = customer.points + awardedPoints,
                       !.lastPurchaseDate = ToISOString(t1)]
    IN  [customer |-> accrued, awardedPoints |-> awardedPoints,
         appliedStatusMultiplier |-> STATUS_MULTIPLIER[accrued.status]]

\* the body of the purchase handler once the request is accepted: the award,
\* the accrual, the purchase date and the upgrade, for the finite positive
\* amount a; t1 and t2 are the clock readings of the two new Date() calls
\* (app.ts:112 and, inside applyStatusUpgrade, app.ts:69, 72 or 75)
RecordPurchase(customer, a, t1, t2) ==
    LET awardedPoints == calcPointsWithStatus(customer.status, a)
        accrued == [customer EXCEPT
                       !.points = customer.points + awardedPoints,
                       !.lastPurchaseDate = ToISOString(t1)]
        upgraded == applyStatusUpgrade(accrued, t2)
    IN  [customer |-> upgraded, awardedPoints |-> awardedPoints,
         appliedStatusMultiplier |-> STATUS_MULTIPLIER[upgraded.status]]

\* GET /api/customers/:id
GetCustomer(id) ==
    LET idx == Find(ParseInt(id))
    IN  /\ resp' = Response(IF idx # 0 THEN 200 ELSE 404)
        /\ UNCHANGED <<customers, purchases, upgVars, calcVars>>

\* POST /api/customers/:id/purchase
Purchase(id, body) ==
    LET idx == Find(ParseInt(id))
        amt == ToNumber(body)
    IN  /\ IF idx = 0
           THEN /\ resp' = Response(404)
                /\ UNCHANGED <<customers, purchases>>
           ELSE IF InvalidAmount(amt)
           THEN /\ resp' = Response(400)
                /\ UNCHANGED <<customers, purchases>>
           ELSE \E t1, t2 \in Times :
                LET done == RecordPurchase(customers[idx], amt.v, t1, t2)
                IN  /\ t1 <= t2
                    /\ purchases < MaxPurchases
                    /\ purchases' = purchases + 1
                    /\ customers' = [customers EXCEPT ![idx] = done.customer]
                    /\ resp' = [code |-> 200,
                                awardedPoints |-> done.awardedPoints,
                                appliedStatusMultiplier |->
                                    done.appliedStatusMultiplier]
        /\ UNCHANGED <<upgVars, calcVars>>

\* req.body of a preferences request: notifications, preferredStore and
\* email are all absent, all of the type the handler tests for, or all of
\* another type
PreferenceBody(n, s, e) == [notifications |-> n, preferredStore |-> s, email |-> e]

PreferenceBodies ==
    { PreferenceBody([t |-> "undefined"], [t |-> "undefined"], [t |-> "undefined"]),
      PreferenceBody([t |-> "boolean", v |-> FALSE],
                     [t |-> "string", v |-> "Downtown"],
                     [t |-> "string", v |-> "jane.doe@email.com"]),
      PreferenceBody([t |-> "string", v |-> "yes"],
                     [t |-> "boolean", v |-> TRUE],
                     [t |-> "null"]) }

\* PATCH /api/customers/:id/preferences
UpdatePreferences(id, body) ==
    LET idx == Find(ParseInt(id))
        n == body.notifications
        s == body.preferredStore
        e == body.email
    IN  /\ IF idx = 0
           THEN /\ resp' = Response(404)
                /\ UNCHANGED customers
           ELSE LET customer == customers[idx]
                    c1 == IF n.t = "boolean"
                          THEN [customer EXCEPT !.notifications = n.v] ELSE customer
                    c2 == IF s.t = "string"
                          THEN [c1 EXCEPT !.preferredStore = s.v] ELSE c1
                    c3 == IF e.t = "string"
                          THEN [c2 EXCEPT !.email = e.v] ELSE c2
                IN  /\ customers' = [customers EXCEPT ![idx] = c3]
                    /\ resp' = Response(200)
        /\ UNCHANGED <<purchases, upgVars, calcVars>>

----------------------------------------------------------------------------
(* The service: requests against the program's customer list *)

\* values of the direct call variables while no direct call is made
NoCalls ==
    /\ c = InitialCustomers[1]
    /\ before = InitialCustomers[1]
    /\ calls = 0
    /\ thrown = "none"

NoCalc ==
    /\ status = "BRONZE"
    /\ amount = 1
    /\ points = 0
    /\ calcCalls = 0

Init ==
    /\ customers = InitialCustomers
    /\ resp = NoResponse
    /\ purchases = 0
    /\ NoCalls
    /\ NoCalc

Get == \E id \in IdParams : GetCustomer(id)

Buy == \E id \in IdParams, body \in AmountBodies : Purchase(id, body)

Patch == \E id \in IdParams, body \in PreferenceBodies : UpdatePreferences(id, body)

Next == Get \/ Buy \/ Patch

Spec == Init /\ [][Next]_vars

----------------------------------------------------------------------------
(* Direct calls of applyStatusUpgrade on one Customer object *)

\* a Customer with the given tier, points and last promotion stamp
CustomerWith(t, p, l) ==
    [InitialCustomers[1] EXCEPT !.status = t, !.points = p, !.lastStatusChange = l]

\* the stamp of a promotion made before the calls
EarlierStamp == "2024-01-10T00:00:00.000Z"

UpgradeInitOver(statuses) ==
    /\ customers = InitialCustomers
    /\ resp = NoResponse
    /\ purchases = 0
    /\ NoCalc
    /\ c \in { CustomerWith(t, p, l) : t \in statuses, p \in 0..MaxCallPoints,
                                       l \in {Undefined, EarlierStamp} }
    /\ before = c
    /\ calls = 0
    /\ thrown = "none"

\* applyStatusUpgrade(c) at clock reading t: the function has no throw
\* statement and returns normally on every object
CallUpgrade ==
    /\ calls < MaxCalls
    /\ \E t \in CallTimes : c' = applyStatusUpgrade(c, t)
    /\ before' = c
    /\ calls' = calls + 1
    /\ thrown' = "none"
    /\ UNCHANGED <<sysVars, calcVars>>

UpgradeInit == UpgradeInitOver(Tiers)

UpgradeSpec == UpgradeInit /\ [][CallUpgrade]_vars

\* status values outside the Customer["status"] union
InvalidTiers == {"DIAMOND", "", "gold"}

InvalidTierInit == UpgradeInitOver(InvalidTiers)

InvalidTierSpec == InvalidTierInit /\ [][CallUpgrade]_vars

----------------------------------------------------------------------------
(* Direct calls of calcPointsWithStatus with finite positive amounts *)

CallAmounts == 1..(MaxCallAmount * Scale)

CalcInit ==
    /\ customers = InitialCustomers
    /\ resp = NoResponse
    /\ purchases = 0
    /\ NoCalls
    /\ status \in Tiers
    /\ amount \in CallAmounts
    /\ points = 0
    /\ calcCalls = 0

\* the first call, with the amount drawn
CallCalc ==
    /\ calcCalls = 0
    /\ points' = calcPointsWithStatus(status, amount)
    /\ calcCalls' = 1
    /\ UNCHANGED <<status, amount, sysVars, upgVars>>

\* a further call for the same tier with another amount
CallCalcAgain ==
    /\ calcCalls >= 1
    /\ calcCalls < MaxCalls
    /\ \E a \in CallAmounts :
           /\ amount' = a
           /\ points' = calcPointsWithStatus(status, a)
    /\ calcCalls' = calcCalls + 1
    /\ UNCHANGED <<status, sysVars, upgVars>>

CalcNext == CallCalc \/ CallCalcAgain

CalcSpec == CalcInit /\ [][CalcNext]_vars

----------------------------------------------------------------------------
(* Properties *)

\* order of privilege, BRONZE lowest
Rank(t) ==
    CASE t = "BRONZE" -> 1
      [] t = "SILVER" -> 2
      [] t = "GOLD" -> 3
      [] t = "PLATINUM" -> 4
      [] OTHER -> 0

\* the ordered rule list of the promotion evaluator: the tier that results
\* from tier t with p cumulative points
FirstMatchingRule(t, p) ==
    IF p >= 1000 /\ t # "PLATINUM" THEN "PLATINUM"
    ELSE IF p >= 750 /\ t \in {"SILVER", "BRONZE"} THEN "GOLD"
    ELSE IF p >= 500 /\ t = "BRONZE" THEN "SILVER"
    ELSE t

\* the latest direct call took tier t with p points and left tier r
Upgraded(t, p, r) ==
    (calls >= 1 /\ before.status = t /\ before.points = p) => c.status = r

\* C1: for every tier and every points value >= 0, applyStatusUpgrade leaves
\* the tier of the first matching rule (PLATINUM from 1000 unless already
\* PLATINUM, else GOLD from 750 for SILVER and BRONZE, else SILVER from 500
\* for BRONZE, else the tier unchanged), and the five listed cases come out
\* as listed.
UpgradeAppliesFirstMatchingRule ==
    /\ calls >= 1 => c.status = FirstMatchingRule(before.status, before.points)
    /\ calls >= 1 => c.points = before.points
    /\ Upgraded("BRONZE", 499, "BRONZE")
    /\ Upgraded("BRONZE", 500, "SILVER")
    /\ Upgraded("SILVER", 750, "GOLD")
    /\ Upgraded("GOLD", 1000, "PLATINUM")
    /\ Upgraded("GOLD", 800, "GOLD")

\* a GOLD object with exactly 1000 points was promoted to PLATINUM
UpgradeAtThresholdReached ==
    /\ calls = 1
    /\ before.status = "GOLD"
    /\ before.points = 1000
    /\ c.status = "PLATINUM"

\* C2: across any sequence of purchase, preference and lookup requests no
\* customer's status is ever lower, in the order BRONZE < SILVER < GOLD <
\* PLATINUM, than it was in an earlier state.
StatusNeverDecreases ==
    [][\A i \in DOMAIN customers :
          Rank(customers'[i].status) >= Rank(customers[i].status)]_vars

\* Jane Doe was promoted to PLATINUM by a purchase of 3000 (850 + 360) and
\* then made a purchase of 300 as PLATINUM (60 points)
PurchaseAfterPromotion ==
    /\ customers[2].status = "PLATINUM"
    /\ customers[2].points = 1270
    /\ customers[2].lastStatusChange # Undefined

\* C2, the evaluator alone: for every tier and every points value >= 0 the
\* tier after a direct call is at least the tier before it (UpgradeSpec).
UpgradeNeverDemotes ==
    calls >= 1 => Rank(c.status) >= Rank(before.status)

\* C3: a second application of applyStatusUpgrade to the result of the first,
\* with the same points, changes neither status nor lastStatusChange.
UpgradeIsIdempotent ==
    calls >= 2 =>
        /\ c.status = before.status
        /\ c.lastStatusChange = before.lastStatusChange
        /\ c = before

\* the first call promoted to PLATINUM at one clock reading and the second
\* call, at any reading, found nothing to do
SecondUpgradeAfterPromotion ==
    /\ calls = 2
    /\ c.status = "PLATINUM"
    /\ c.points = 1000
    /\ c.lastStatusChange = ToISOString(1)

\* a BRONZE object with 1000 points reached PLATINUM in one call
BronzeJumpsToPlatinum ==
    /\ calls = 1
    /\ before.status = "BRONZE"
    /\ before.points = 1000
    /\ c.status = "PLATINUM"

\* the multiplier of a tier as a fraction: 1, 1, 6/5, 2
RateNum(t) == CASE t = "BRONZE" -> 1 [] t = "SILVER" -> 1 [] t = "GOLD" -> 6
                [] t = "PLATINUM" -> 2
RateDen(t) == CASE t = "BRONZE" -> 1 [] t = "SILVER" -> 1 [] t = "GOLD" -> 5
                [] t = "PLATINUM" -> 1

\* p = floor(floor(a / 10) * m) for the amount a, counted in units of 1/Scale,
\* and the multiplier m of tier t
IsFloorOfFloor(t, a, p) ==
    \E base \in 0..a :
        /\ base * 10 * Scale <= a
        /\ a < (base + 1) * 10 * Scale
        /\ p * RateDen(t) <= base * RateNum(t)
        /\ base * RateNum(t) < (p + 1) * RateDen(t)

\* the latest direct call, for tier t and the whole amount a, returned p
Awarded(t, a, p) ==
    (calcCalls >= 1 /\ status = t /\ amount = a * Scale) => points = p

\* C4: calcPointsWithStatus returns floor(floor(amount / 10) * m) for every
\* tier and positive amount; GOLD with 19 gives 1, any amount below 10 gives
\* 0, and 100 gives 10, 10, 12, 20 for BRONZE, SILVER, GOLD, PLATINUM.
PointsAreFloorOfFloor ==
    /\ calcCalls >= 1 => IsFloorOfFloor(status, amount, points)
    /\ (calcCalls >= 1 /\ amount < 10 * Scale) => points = 0
    /\ Awarded("GOLD", 19, 1)
    /\ Awarded("BRONZE", 100, 10)
    /\ Awarded("SILVER", 100, 10)
    /\ Awarded("GOLD", 100, 12)
    /\ Awarded("PLATINUM", 100, 20)

\* GOLD with 19 was awarded 1 point, where one floor of 19 * 1.2 / 10 is 2
GoldNineteenAwarded ==
    /\ calcCalls >= 1
    /\ status = "GOLD"
    /\ amount = 19 * Scale
    /\ points = 1
    /\ (amount * 12) \div (10 * 10 * Scale) = 2

\* C5: for a fixed tier the award is never negative and a call with an
\* amount at least as large never returns less.
AwardMonotoneInAmount ==
    [][(calcCalls >= 1 /\ calcCalls' > calcCalls /\ amount <= amount')
          => (0 <= points /\ points <= points')]_vars

\* a second call was made, for GOLD with 20, and returned 2
SecondCalcCallMade ==
    /\ calcCalls = 2
    /\ status = "GOLD"
    /\ amount = 20 * Scale
    /\ points = 2

\* a request body amount that is missing, not numeric, not finite, zero
\* (null converts to zero) or negative
RejectedAmount(body) ==
    \/ body.t = "undefined"
    \/ body.t = "null"
    \/ body.t = "string" /\ \E i \in 1..Len(body.v) : body.v[i] \notin Digits
    \/ body.t = "number" /\ body.v.k # "fin"
    \/ body.t = "number" /\ body.v.k = "fin" /\ body.v.v <= 0

\* the position in the list of the customer whose id the route parameter
\* starts with, 0 when there is none
Named(id) ==
    IF \E i \in DOMAIN customers : ParseInt(id) = Fin(customers[i].id)
    THEN CHOOSE i \in DOMAIN customers : ParseInt(id) = Fin(customers[i].id)
    ELSE 0

\* the route parameters that name a customer of the list
KnownIds == { id \in IdParams : Named(id) # 0 }

\* C6: a purchase request for an existing customer with a missing,
\* non-numeric, non-finite, zero or negative amount is answered 400, awards
\* nothing and leaves every customer record, lastPurchaseDate included, as
\* it was.
InvalidAmountRejected ==
    [][\/ /\ resp'.code = 400
          /\ resp'.awardedPoints = 0
          /\ customers' = customers
          /\ purchases' = purchases
       \/ \A id \in KnownIds, body \in AmountBodies :
              ~(RejectedAmount(body) /\ Purchase(id, body))]_vars

\* an invalid amount was rejected after a purchase had been recorded
RejectedAfterPurchase ==
    /\ resp.code = 400
    /\ purchases = 1
    /\ customers[1].points = 480

\* C7: a recorded purchase computes the award from the tier held before the
\* purchase, adds exactly that award to the points, applies the promotion
\* rules to the tier held before and the new total, and returns as
\* awardedPoints the increase of the stored points.
PurchaseStepsInOrder ==
    [][\A id \in KnownIds, body \in AmountBodies :
          (purchases' = purchases + 1 /\ Purchase(id, body))
              => LET i == Named(id)
                     old == customers[i]
                     new == customers'[i]
                     a == ToNumber(body).v
                 IN  /\ IsFloorOfFloor(old.status, a, resp'.awardedPoints)
                     /\ new.points = old.points + resp'.awardedPoints
                     /\ new.status = FirstMatchingRule(old.status, new.points)
                     /\ resp'.code = 200]_vars

\* John Smith, SILVER with 450 points, bought for 3000: 300 points at the
\* SILVER rate (360 at the GOLD rate), 750 in total, promoted to GOLD
AwardAtTierBeforePromotion ==
    /\ customers[1].status = "GOLD"
    /\ customers[1].points = 750
    /\ resp.code = 200
    /\ resp.awardedPoints = 300

\* C8: in every state reachable from the initial list each customer's status
\* is at least the highest tier whose threshold its points meet.
StatusMeetsThresholds ==
    \A i \in DOMAIN customers :
        /\ customers[i].points >= 500 => Rank(customers[i].status) >= Rank("SILVER")
        /\ customers[i].points >= 750 => Rank(customers[i].status) >= Rank("GOLD")
        /\ customers[i].points >= 1000 => customers[i].status = "PLATINUM"

\* John Smith went from SILVER with 450 points to 1050 points in one purchase
SilverCrossedThousand ==
    /\ customers[1].points = 1050
    /\ customers[1].status = "PLATINUM"
    /\ purchases = 1

InvalidTierNotPromoted ==
    (calls >= 1 /\ before.status \notin Tiers) => c.status = before.status

Loyalty ==
    [i \in DOMAIN customers |->
        <<customers[i].status, customers[i].points, customers[i].lastStatusChange>>]

\* C10: a lookup, a preferences request, a purchase for an unknown id and a
\* purchase with an invalid amount leave status, points and lastStatusChange
\* of every customer unchanged, and a purchase for one customer leaves every
\* other customer's record unchanged.
LoyaltyChangesOnlyByPurchase ==
    [][/\ \/ Loyalty' = Loyalty
          \/ /\ purchases' = purchases + 1
             /\ \A id \in IdParams : ~GetCustomer(id)
             /\ \A id \in IdParams, body \in PreferenceBodies :
                    ~UpdatePreferences(id, body)
             /\ \A id \in IdParams, body \in AmountBodies :
                    (id \notin KnownIds \/ RejectedAmount(body))
                        => ~Purchase(id, body)
       /\ \/ purchases' = purchases
          \/ \A id \in KnownIds, body \in AmountBodies :
                 Purchase(id, body) =>
                     \A j \in DOMAIN customers :
                         j # Named(id) => customers'[j] = customers[j]]_vars

\* John Smith's preferences were changed and Jane Doe made a purchase, and
\* John Smith's loyalty state is the initial one
PreferencesChangedLoyaltyKept ==
    /\ customers[1].email = "jane.doe@email.com"
    /\ customers[1].notifications = FALSE
    /\ customers[1].status = "SILVER"
    /\ customers[1].points = 450
    /\ customers[1].lastStatusChange = Undefined
    /\ customers[1].lastPurchaseDate = "2024-02-15"
    /\ customers[2].points = 886
    /\ resp.code = 404

\* C11: each customer's cumulative points is a non-negative integer in every
\* state, and no step of any request sequence lowers or resets it.
PointsNeverDecrease ==
    [][\A i \in DOMAIN customers :
          /\ customers[i].points \in Nat
          /\ customers'[i].points \in Nat
          /\ customers'[i].points >= customers[i].points]_vars

\* both customers have accrued points: John Smith 30 on 450, Jane Doe 36 on 850
BothCustomersAccrued ==
    /\ customers[1].points = 480
    /\ customers[2].points = 886
    /\ purchases = 2

\* the step is a recorded purchase of the whole amount a, sent as a JSON
\* number, by the first customer of the list, who held tier t with p points
FirstCustomerBuys(t, p, a) ==
    /\ purchases' = purchases + 1
    /\ customers[1].status = t
    /\ customers[1].points = p
    /\ Purchase(<<"1">>, [t |-> "number", v |-> Fin(a * Scale)])

\* C12: from SILVER with 450 points a purchase of 300 awards 30, the total
\* becomes 480 and the tier stays SILVER; a following purchase of 500 awards
\* 50, the total becomes 530, the tier stays SILVER and no promotion is
\* recorded.  In general a purchase that leaves a SILVER customer with a
\* total in 500..749 changes neither the tier nor lastStatusChange.
SilverStaysBelowGold ==
    [][/\ FirstCustomerBuys("SILVER", 450, 300)
              => /\ resp'.awardedPoints = 30
                 /\ customers'[1].points = 480
                 /\ customers'[1].status = "SILVER"
                 /\ customers'[1].lastStatusChange = customers[1].lastStatusChange
       /\ FirstCustomerBuys("SILVER", 480, 500)
              => /\ resp'.awardedPoints = 50
                 /\ customers'[1].points = 530
                 /\ customers'[1].status = "SILVER"
                 /\ customers'[1].lastStatusChange = customers[1].lastStatusChange
       /\ \A i \in DOMAIN customers :
              (customers[i].status = "SILVER" /\ customers'[i].points \in 500..749)
                  => /\ customers'[i].status = "SILVER"
                     /\ customers'[i].lastStatusChange
                            = customers[i].lastStatusChange]_vars

\* John Smith bought for 300 and then for 500: 530 points, still SILVER, no
\* promotion stamp
SilverAtFiveThirty ==
    /\ purchases = 2
    /\ customers[1].points = 530
    /\ customers[1].status = "SILVER"
    /\ customers[1].lastStatusChange = Undefined
    /\ customers[2].points = 850
    /\ resp.code = 200
    /\ resp.awardedPoints = 50

\* C13: applyStatusUpgrade has no clock dependency: the record a call
\* returns is the one it returns from the same argument at every other clock
\* reading, so the call itself writes no promotion timestamp.
UpgradeIgnoresClock ==
    calls >= 1 =>
        /\ \A t \in CallTimes : applyStatusUpgrade(before, t) = c
        /\ c.lastStatusChange = before.lastStatusChange

\* a direct call at clock reading 2 promoted GOLD with 1000 points and
\* replaced the earlier stamp by that reading
UpgradeStampedAtCallTime ==
    /\ calls = 1
    /\ before = CustomerWith("GOLD", 1000, EarlierStamp)
    /\ c.status = "PLATINUM"
    /\ c.lastStatusChange = ToISOString(2)

\* C14: a call of applyStatusUpgrade overwrites lastStatusChange exactly
\* when the tier after the call differs from the tier before it; when no
\* rule fires the whole record, lastStatusChange included, is untouched.
StampWrittenIffTierChanged ==
    calls >= 1 =>
        /\ (c.lastStatusChange # before.lastStatusChange)
               <=> (c.status # before.status)
        /\ c.status # before.status
               => c.lastStatusChange \in { ToISOString(t) : t \in CallTimes }
        /\ FirstMatchingRule(before.status, before.points) = before.status
               => c = before

\* a first call promoted SILVER with 750 points to GOLD and replaced the
\* earlier stamp; the second call found no rule and left that stamp alone
StampKeptBySecondCall ==
    /\ calls = 2
    /\ before.status = "GOLD"
    /\ before.points = 750
    /\ before.lastStatusChange = ToISOString(1)
    /\ c = before

\* C15: the appliedStatusMultiplier of a successful purchase is the
\* multiplier its awardedPoints were computed with: awardedPoints =
\* floor(floor(amount / 10) * appliedStatusMultiplier), also when the
\* purchase promotes the customer to GOLD or PLATINUM.
ReturnedMultiplierWasApplied ==
    [][\A id \in KnownIds, body \in AmountBodies :
          (purchases' = purchases + 1 /\ Purchase(id, body))
              => resp'.awardedPoints
                    = ((ToNumber(body).v \div (BASE_POINT_DIVISOR * Scale))
                          * resp'.appliedStatusMultiplier) \div 10]_vars

\* John Smith, SILVER with 450 points, bought for 3000: 300 points were
\* awarded at the SILVER rate and the response names the GOLD multiplier
PromotingPurchaseNamesNewMultiplier ==
    /\ purchases = 1
    /\ customers[1].points = 750
    /\ customers[1].status = "GOLD"
    /\ resp.code = 200
    /\ resp.awardedPoints = 300
    /\ resp.appliedStatusMultiplier = STATUS_MULTIPLIER["GOLD"]

====
